---------------------------- MODULE Spec2Model ----------------------------
(***************************************************************************)
(* ColorLab: conversions between colour spaces through the linear RGBA     *)
(* pivot `Color`.  Every codec (impl ColorSpace for S) has two pure        *)
(* functions, to_color and from_color; the state machine below constructs  *)
(* values and applies the codecs to them.                                  *)
(*                                                                         *)
(* Numbers.  The program computes in f64.  The model computes in a binary  *)
(* floating point of the same shape: sign, significand, exponent, with     *)
(* +-infinity and NaN, round-to-nearest-even for + - * / sqrt, and the     *)
(* f64 overflow threshold 2^1024.  The significand has SigBits bits        *)
(* instead of 53 (TLC's integers have 32 bits); signed zeros and           *)
(* subnormal numbers are not distinguished.  powf, atan2 and sin_cos are   *)
(* computed to a few units in the last place, as a libm does.              *)
(***************************************************************************)
EXTENDS Integers, Sequences, FiniteSets, TLC

-----------------------------------------------------------------------------
(* Bounds of the model *)

\* width of the significand of a modelled f64
SigBits == 27
\* longest chain of values: construct, convert, convert back
MaxChain == 3

-----------------------------------------------------------------------------
(* f64 values: [k, s, m, e] is s * m * 2^e, m = 0 or 2^(SigBits-1) <= m < 2^SigBits *)

\* f64::MAX_EXP: finite values are below 2^1024
EMax == 1024

Zero == [k |-> "f", s |-> 1, m |-> 0, e |-> 0]
NaN == [k |-> "nan", s |-> 1, m |-> 0, e |-> 0]
Inf(s) == [k |-> "inf", s |-> s, m |-> 0, e |-> 0]
Fin(s, m, e) == [k |-> "f", s |-> s, m |-> m, e |-> e]

IsNaN(x) == x.k = "nan"
IsInf(x) == x.k = "inf"
IsFinite(x) == x.k = "f"
IsZero(x) == x.k = "f" /\ x.m = 0

Abs(n) == IF n < 0 THEN -n ELSE n
Sgn(n) == IF n < 0 THEN -1 ELSE 1

\* number of bits of x, 0 <= x < 16
\* F(x), with x evaluated before F is applied to it
Strict(x, F(_)) == CHOOSE r \in {F(v) : v \in {x}} : TRUE

B4(x) == IF x < 4 THEN (IF x < 2 THEN x ELSE 2) ELSE (IF x < 8 THEN 3 ELSE 4)

B8(x) == IF x < 16 THEN B4(x) ELSE 4 + B4(x \div 16)
B16(x) == IF x < 256 THEN B8(x) ELSE 8 + B8(x \div 256)
\* number of bits of 0 <= x < 2^31
BitLen(x) == IF x < 65536 THEN B16(x) ELSE 16 + B16(x \div 65536)

\* s * m * 2^e with m already SigBits wide; overflow gives infinity
Pack(s, m, e) == IF e + SigBits > EMax THEN Inf(s) ELSE Fin(s, m, e)

\* round to nearest, ties to even: q with the remainder r of a division by 2 * half
RoundEven(q, r, half) == IF r > half \/ (r = half /\ q % 2 = 1) THEN q + 1 ELSE q

\* a rounded significand may have carried into one more bit
Renorm(s, q, e) ==
  IF q = 2^SigBits THEN Pack(s, 2^(SigBits - 1), e + 1) ELSE Pack(s, q, e)

\* M shifted right by sh bits (left when sh <= 0) and rounded
Shift(s, M, e, sh) ==
  IF sh <= 0 THEN Pack(s, M * 2^(-sh), e + sh)
  ELSE Renorm(s, RoundEven(M \div 2^sh, M % 2^sh, 2^(sh - 1)), e + sh)

\* the value s * M * 2^e rounded to the nearest f64, ties to even; overflow gives infinity
Norm(s, M, e) == IF M = 0 THEN Zero ELSE Shift(s, M, e, BitLen(M) - SigBits)

\* the value S * 2^e, S a signed integer
NormInt(S, e) == Norm(Sgn(S), Abs(S), e)

\* an integer as f64 (i32::MIN is -2^31)
FromInt(n) ==
  IF n = -2147483647 - 1 THEN Fin(-1, 2^(SigBits - 1), 32 - SigBits)
  ELSE NormInt(n, 0)

One == Fin(1, 2^(SigBits - 1), 1 - SigBits)
Two == Fin(1, 2^(SigBits - 1), 2 - SigBits)
Half == Fin(1, 2^(SigBits - 1), 0 - SigBits)

FNeg(x) == IF IsNaN(x) \/ IsZero(x) THEN x ELSE [x EXCEPT !.s = -x.s]
FAbs(x) == IF IsNaN(x) THEN x ELSE [x EXCEPT !.s = 1]

\* v with the sticky bit or-ed into its last bit
Jam(v, sticky) == IF sticky /\ v % 2 = 0 THEN v + 1 ELSE v

\* Y shifted right by d bits, the bits shifted out kept as a sticky bit
Aligned(Y, d) == IF d > 30 THEN 1 ELSE Jam(Y \div 2^d, Y % 2^d # 0)

\* x + y for finite non-zero x, y with x.e >= y.e: three guard bits, the last one sticky
AddFin(x, y) ==
  NormInt(x.s * x.m * 8 + y.s * Aligned(y.m * 8, x.e - y.e), x.e - 3)

\* f64 addition
FAdd(x, y) ==
  IF IsNaN(x) \/ IsNaN(y) THEN NaN
  ELSE IF IsInf(x) THEN (IF IsInf(y) /\ y.s # x.s THEN NaN ELSE x)
  ELSE IF IsInf(y) THEN y
  ELSE IF IsZero(x) THEN y
  ELSE IF IsZero(y) THEN x
  ELSE IF x.e >= y.e THEN AddFin(x, y) ELSE AddFin(y, x)

\* f64 subtraction
FSub(x, y) == FAdd(x, FNeg(y))

\* a * b = H * 2^30 + L, for 0 <= a, b < 2^30: <<H, L>>
Mul60(a, b) ==
  LET ah == a \div 32768
      al == a % 32768
      bh == b \div 32768
      bl == b % 32768
      cr == ah * bl + al * bh
      low == (cr % 32768) * 32768 + al * bl
  IN << ah * bh + cr \div 32768 + low \div 2^30, low % 2^30 >>

\* the product HL = <<H, L>> of two significands, rounded
MulPack(s, HL, e) ==
  Norm(s, Jam(HL[1] * 2^(60 - 2 * SigBits) + HL[2] \div 2^(2 * SigBits - 30),
              HL[2] % 2^(2 * SigBits - 30) # 0), e)

\* f64 multiplication
FMul(x, y) ==
  IF IsNaN(x) \/ IsNaN(y) THEN NaN
  ELSE IF IsInf(x) \/ IsInf(y)
       THEN (IF IsZero(x) \/ IsZero(y) THEN NaN ELSE Inf(x.s * y.s))
  ELSE IF IsZero(x) \/ IsZero(y) THEN Zero
  ELSE MulPack(x.s * y.s, Mul60(x.m, y.m), x.e + y.e + 2 * SigBits - 30)

\* one step of the long division by d: four more quotient bits of qr = <<q, r>>
DivStep(qr, d) == << qr[1] * 16 + (qr[2] * 16) \div d, (qr[2] * 16) % d >>

RECURSIVE DivBits(_, _, _)
\* n more steps of the long division by d; the division is over once the
\* remainder is 0
DivBits(qr, d, n) ==
  IF n = 0 THEN qr
  ELSE IF qr[2] = 0 THEN << qr[1] * 16^n, 0 >>
  ELSE DivBits(DivStep(qr, d), d, n - 1)

\* a last step of k quotient bits
DivLast(qr, d, k) ==
  << qr[1] * 2^k + (qr[2] * 2^k) \div d, (qr[2] * 2^k) % d >>

\* a quotient qr = <<q, r>> with its remainder as the sticky bit, rounded
DivPack(s, qr, e) == Norm(s, Jam(qr[1], qr[2] # 0), e)

\* f64 division; x/0 is +-infinity, 0/0 is NaN.  The quotient is taken to
\* SigBits + 2 bits before rounding.
FDiv(x, y) ==
  IF IsNaN(x) \/ IsNaN(y) THEN NaN
  ELSE IF IsInf(x) THEN (IF IsInf(y) THEN NaN ELSE Inf(x.s * y.s))
  ELSE IF IsInf(y) THEN Zero
  ELSE IF IsZero(y) THEN (IF IsZero(x) THEN NaN ELSE Inf(x.s))
  ELSE IF IsZero(x) THEN Zero
  ELSE DivPack(x.s * y.s,
               DivLast(DivBits(<< x.m \div y.m, x.m % y.m >>, y.m, (SigBits + 2) \div 4),
                       y.m, (SigBits + 2) % 4),
               x.e - y.e - (SigBits + 2))

\* |x| > |y| for finite non-zero x, y
MagGt(x, y) == x.e > y.e \/ (x.e = y.e /\ x.m > y.m)

\* f64 <  (false when either side is NaN)
FLt(x, y) ==
  IF IsNaN(x) \/ IsNaN(y) \/ x = y THEN FALSE
  ELSE IF IsInf(x) THEN x.s < 0
  ELSE IF IsInf(y) THEN y.s > 0
  ELSE IF IsZero(x) THEN y.s > 0
  ELSE IF IsZero(y) THEN x.s < 0
  ELSE IF x.s # y.s THEN x.s < y.s
  ELSE IF x.s > 0 THEN ~MagGt(x, y) ELSE MagGt(x, y)

FGt(x, y) == FLt(y, x)
\* f64 == (false when either side is NaN)
FEq(x, y) == ~IsNaN(x) /\ ~IsNaN(y) /\ x = y
FLe(x, y) == FLt(x, y) \/ FEq(x, y)
FGe(x, y) == FLe(y, x)

\* f64::max and f64::min: a NaN operand is ignored
FMax(x, y) == IF IsNaN(x) THEN y ELSE IF IsNaN(y) THEN x ELSE IF FLt(x, y) THEN y ELSE x
\* the receiver, whatever the argument
Leftmost(x, y) == x
FMin(x, y) == IF IsNaN(x) THEN y ELSE IF IsNaN(y) THEN x ELSE IF FLt(y, x) THEN y ELSE x

\* if x > hi { hi } else { x }
CapAt(x, hi) == IF FGt(x, hi) THEN hi ELSE x

\* x as it is, whatever the limits
Unclamped(x, lo, hi) == x

\* f64::clamp: NaN stays NaN
FClamp(x, lo, hi) == CapAt(IF FLt(x, lo) THEN lo ELSE x, hi)

\* floor(m / 2^k) with the sign s applied, 0 < k < SigBits
FloorShift(s, q, r) == IF s > 0 THEN q ELSE IF r = 0 THEN -q ELSE -q - 1

\* floor of a finite x as an integer, saturated to the i32 range
FloorInt(x) ==
  IF IsZero(x) THEN 0
  ELSE IF x.e >= 0
       THEN (IF x.e + SigBits > 31
             THEN (IF x.s > 0 THEN 2147483647 ELSE -2147483647 - 1)
             ELSE x.s * x.m * 2^x.e)
  ELSE IF -x.e >= SigBits THEN (IF x.s > 0 THEN 0 ELSE -1)
  ELSE FloorShift(x.s, x.m \div 2^(-x.e), x.m % 2^(-x.e))

\* f64::floor
FFloor(x) == IF ~IsFinite(x) \/ IsZero(x) \/ x.e >= 0 THEN x ELSE FromInt(FloorInt(x))

\* `as i32` of an integral f64: saturating, NaN gives 0
ToI32(x) ==
  IF IsNaN(x) THEN 0
  ELSE IF IsInf(x) THEN (IF x.s > 0 THEN 2147483647 ELSE -2147483647 - 1)
  ELSE FloorInt(x)

\* i32::rem_euclid by a positive d
RemEuclid(i, d) == i % d

RECURSIVE MulMod(_, _, _)
\* (a * b) mod d, for a, b < d < 2^27
MulMod(a, b, d) ==
  IF a = 0 THEN 0 ELSE (MulMod(a \div 8, b, d) * 8 + (a % 8) * b) % d

RECURSIVE Pow2Mod(_, _)
\* 2^n mod d
Pow2Mod(n, d) ==
  IF n < 30 THEN 2^n % d
  ELSE LET h == Pow2Mod(n \div 2, d)
       IN MulMod(MulMod(h, h, d), 2^(n % 2) % d, d)

\* f64 % : the truncated remainder, with the sign of x, exact
FMod(x, y) ==
  IF IsNaN(x) \/ IsNaN(y) \/ IsInf(x) \/ IsZero(y) THEN NaN
  ELSE IF IsInf(y) \/ IsZero(x) THEN x
  ELSE IF MagGt(y, x) THEN x
  ELSE Norm(x.s, MulMod(x.m % y.m, Pow2Mod(x.e - y.e, y.m), y.m), y.e)

\* the two radicand bits of step i, the first of 14 steps taking the top
\* two bits of mm < 2^28; none are left after these
SqrtPair(mm, i) == IF i < 14 THEN (mm \div 4^(13 - i)) % 4 ELSE 0

\* the next root bit: rem4 is the remainder with two more radicand bits
SqrtTry(root, rem4) ==
  IF rem4 >= root * 4 + 1 THEN << root * 2 + 1, rem4 - (root * 4 + 1) >>
  ELSE << root * 2, rem4 >>
\* st = <<root, remainder>>
SqrtStep(st, pair) == SqrtTry(st[1], st[2] * 4 + pair)

RECURSIVE SqrtBits(_, _, _, _)
\* the steps i .. i + n - 1 of the square root of mm, digit by digit
SqrtBits(st, mm, i, n) ==
  IF n = 1 THEN SqrtStep(st, SqrtPair(mm, i))
  ELSE Strict(SqrtBits(st, mm, i, n \div 2),
              LAMBDA h : SqrtBits(h, mm, i + n \div 2, n - n \div 2))

\* the root bits rr = <<root, remainder>> rounded, n bits after the integer root
SqrtPack(rr, e) == Norm(1, Jam(rr[1] * 2, rr[2] # 0), e)

\* the square root of mm * 2^ee, ee even, with n bits after the integer root
SqrtExtend(mm, ee, n) ==
  SqrtPack(SqrtBits(<< 0, 0 >>, mm, 0, 14 + n), ee \div 2 - n - 1)

\* the root is taken to SigBits + 2 bits before rounding
SqrtEven(mm, ee) == SqrtExtend(mm, ee, SigBits + 2 - (BitLen(mm) + 1) \div 2)

\* f64::sqrt
FSqrt(x) ==
  IF IsNaN(x) THEN NaN
  ELSE IF IsZero(x) THEN Zero
  ELSE IF x.s < 0 THEN NaN
  ELSE IF IsInf(x) THEN x
  ELSE IF x.e % 2 # 0 THEN SqrtEven(x.m * 2, x.e - 1)
  ELSE SqrtEven(x.m, x.e)

-----------------------------------------------------------------------------
(* Decimal literals of the source, rounded to f64 *)

\* 10^5 and 10^10 are exact
Pow10F(d) ==
  IF d <= 9 THEN FromInt(10^d) ELSE FMul(FromInt(100000), FromInt(10^(d - 5)))

\* the literal n / 10^d, d <= 9
Dec(n, d) == FDiv(FromInt(n), FromInt(10^d))
\* the literal (a * 10^5 + b) / 10^d, for literals of more than nine digits
DecF(a, b, d) ==
  FDiv(FAdd(FMul(FromInt(a), FromInt(100000)), FromInt(Sgn(a) * b)), Pow10F(d))

\* std::f64::consts::PI, rounded from 28 fraction bits
Pi == Norm(1, 843314857, -28)
HalfPi == Norm(1, 843314857, -29)
QuarterPi == Norm(1, 843314857, -30)

-----------------------------------------------------------------------------
(* powf: 2^(y * log2 x), in fixed point with 28 fraction bits *)

\* floor(HL / 2^28)
HighQ(HL) == HL[1] * 4 + HL[2] \div 2^28

\* floor(a * b / 2^28)
MulQ(a, b) == HighQ(Mul60(a, b))

\* the next fraction bit of a logarithm: y2 is the square of the mantissa
Log2Bit(y2, acc) ==
  IF y2 >= 2^29 THEN << y2 \div 2, acc * 2 + 1 >> ELSE << y2, acc * 2 >>
\* st = <<y, acc>>: the mantissa y / 2^28 in [1, 2) and the bits so far
Log2Sq(st) == Log2Bit(MulQ(st[1], st[1]), st[2])

RECURSIVE Log2Bits(_, _)
RECURSIVE Log2Rest(_, _)
\* n more fraction bits of log2(y / 2^28), from st = <<y, acc>>
Log2Bits(st, n) ==
  IF n = 1 THEN Log2Sq(st) ELSE Log2Rest(Log2Bits(st, n \div 2), n - n \div 2)
\* once the mantissa is 1 the bits left are zero
Log2Rest(st, n) ==
  IF st[1] = 2^28 THEN << st[1], st[2] * 2^n >> ELSE Log2Bits(st, n)

\* log2 of a finite x > 0
FLog2(x) ==
  FAdd(FromInt(x.e + SigBits - 1),
       Norm(1, Log2Bits(<< x.m * 2^(29 - SigBits), 0 >>, 28)[2], -28))

\* st = <<term, acc>> and the next term, t^n / n!, added
ExpTerm(nt, acc) == << nt, acc + nt >>

RECURSIVE ExpSeries(_, _, _)
\* the sum of the terms t^j / j!, given st = <<t^(n-1) / (n-1)!, the sum up to it>>
ExpSeries(t, st, n) ==
  IF st[1] = 0 THEN st[2]
  ELSE ExpSeries(t, ExpTerm(MulQ(st[1], t) \div n, st[2]), n + 1)

\* a finite 0 <= g < 1 in units of 2^-28
ToQ28(g) ==
  IF IsZero(g) THEN 0
  ELSE IF g.e >= -28 THEN g.m * 2^(28 + g.e)
  ELSE g.m \div 2^(-28 - g.e)

\* 2^(n + gq / 2^28); ln 2 = 186065279 / 2^28
Exp2Q(n, gq) ==
  IF gq >= 2^28 THEN Norm(1, 1, n + 1)
  ELSE Norm(1, ExpSeries(MulQ(gq, 186065279), << 2^28, 2^28 >>, 1), n - 28)

\* 2^z, n = floor(z)
Exp2Floor(z, n) == Exp2Q(n, ToQ28(FSub(z, FromInt(n))))

\* 2^z for a finite z
FExp2(z) ==
  IF IsZero(z) THEN One
  ELSE IF z.e + SigBits > 12 THEN (IF z.s > 0 THEN Inf(1) ELSE Zero)
  ELSE Exp2Floor(z, FloorInt(z))

\* f64::powf(x, y) for the exponents of the source: y > 0 and not an integer.
\* A negative base gives NaN.
Powf(x, y) ==
  IF IsNaN(x) THEN NaN
  ELSE IF IsZero(x) THEN Zero
  ELSE IF IsInf(x) THEN Inf(1)
  ELSE IF x.s < 0 THEN NaN
  ELSE IF x = One THEN One
  ELSE FExp2(FMul(y, FLog2(x)))

\* f64::powi(x, 3)
Powi3(x) == FMul(FMul(x, x), x)
\* f64::powi(x, 2)
Powi2(x) == FMul(x, x)

-----------------------------------------------------------------------------
(* atan2, sin_cos, to_radians, to_degrees *)

RECURSIVE AtanSeries(_, _, _)
\* 1/(2n+1) - w * p, down to n = 0: the series of atan(u)/u in w = u^2
AtanSeries(w, n, p) ==
  IF n < 0 \/ IsNaN(p) THEN p
  ELSE AtanSeries(w, n - 1, FSub(FDiv(One, FromInt(2 * n + 1)), FMul(w, p)))

\* atan(u), |u| <= 1/4
AtanSmall(u) == FMul(u, AtanSeries(FMul(u, u), 7, Zero))

\* atan(1/2), rounded from 28 fraction bits
AtanHalf == Norm(1, 124459457, -28)

\* atan(t) = AtanBase(t) + atan(AtanArg(t)), 0 <= t <= 1: reduction at 0, 1/2 and 1
AtanBase(t) ==
  IF FLe(t, Norm(1, 1, -2)) THEN Zero
  ELSE IF FLe(t, Norm(1, 3, -2)) THEN AtanHalf
  ELSE QuarterPi
AtanArg(t) ==
  IF FLe(t, Norm(1, 1, -2)) THEN t
  ELSE IF FLe(t, Norm(1, 3, -2)) THEN FDiv(FSub(t, Half), FAdd(One, FMul(Half, t)))
  ELSE FDiv(FSub(t, One), FAdd(One, t))

\* atan(t), 0 <= t <= 1
Atan01(t) == FAdd(AtanBase(t), AtanSmall(AtanArg(t)))

\* atan(y/x) from a = atan(min(y/x, x/y))
AtanFold(le, a) == IF le THEN a ELSE FSub(HalfPi, a)

\* atan2(y, x) for finite y >= 0, x >= 0, not both zero
AtanPos(y, x) ==
  IF IsZero(x) THEN HalfPi
  ELSE AtanFold(FLe(y, x), Atan01(IF FLe(y, x) THEN FDiv(y, x) ELSE FDiv(x, y)))

\* atan2 of (|y|, |x|)
AtanAbs(y, x) ==
  IF IsInf(x) /\ IsInf(y) THEN QuarterPi
  ELSE IF IsInf(y) THEN HalfPi
  ELSE IF IsInf(x) THEN Zero
  ELSE AtanPos(FAbs(y), FAbs(x))

\* the angle a of (|y|, |x|) moved to the half plane of x
AtanSide(x, a) == IF ~IsZero(x) /\ x.s < 0 THEN FSub(Pi, a) ELSE a

\* the sign of y applied to the angle b
AtanSign(y, b) == IF ~IsZero(y) /\ y.s < 0 THEN FNeg(b) ELSE b

\* f64::atan2(y, x), radians in [-pi, pi]
Atan2(y, x) ==
  IF IsNaN(x) \/ IsNaN(y) THEN NaN
  ELSE IF IsZero(y) /\ ~IsInf(x) /\ (IsZero(x) \/ x.s > 0) THEN Zero
  ELSE AtanSign(y, AtanSide(x, AtanAbs(y, x)))

RECURSIVE SinSeries(_, _, _)
\* 1 - w * p / (2n (2n+1)), down to n = 1: the series of sin(r)/r in w = r^2
SinSeries(w, n, p) ==
  IF n = 0 \/ IsNaN(p) THEN p
  ELSE SinSeries(w, n - 1, FSub(One, FDiv(FMul(w, p), FromInt((2 * n) * (2 * n + 1)))))

RECURSIVE CosSeries(_, _, _)
\* 1 - w * p / ((2n-1) 2n), down to n = 1: the series of cos(r) in w = r^2
CosSeries(w, n, p) ==
  IF n = 0 \/ IsNaN(p) THEN p
  ELSE CosSeries(w, n - 1, FSub(One, FDiv(FMul(w, p), FromInt((2 * n - 1) * (2 * n)))))

\* <<sin r, cos r>>, |r| <= pi/4, w = r^2
SinCosW(r, w) == << FMul(r, SinSeries(w, 6, One)), CosSeries(w, 6, One) >>

\* <<sin, cos>> of an angle k quarter turns after the angle of sc
Quadrant(k, sc) ==
  CASE k = 0 -> sc
    [] k = 1 -> << sc[2], FNeg(sc[1]) >>
    [] k = 2 -> << FNeg(sc[1]), FNeg(sc[2]) >>
    [] OTHER -> << FNeg(sc[2]), sc[1] >>

\* <<sin r, cos r>>, |r| <= pi/4
SinCosSmall(r) == SinCosW(r, FMul(r, r))

\* <<sin r0, cos r0>>, q the quarter turn nearest to r0
SinCosQ(r0, q) == Quadrant(q % 4, SinCosSmall(FSub(r0, FMul(FromInt(q), HalfPi))))

\* f64::sin_cos(x): <<sin x, cos x>>
SinCosR(r0) == SinCosQ(r0, FloorInt(FAdd(FDiv(r0, HalfPi), Half)))
SinCos(x) ==
  IF ~IsFinite(x) THEN << NaN, NaN >> ELSE SinCosR(FMod(x, FMul(Two, Pi)))

\* f64::to_radians and f64::to_degrees
ToRadians(x) == FMul(x, FDiv(Pi, FromInt(180)))
ToDegrees(x) == FMul(x, FDiv(FromInt(180), Pi))

-----------------------------------------------------------------------------
(* The pivot and the bridge matrices *)

\* Color::new
Color(r, g, b, a) == [r |-> r, g |-> g, b |-> b, a |-> a]

\* Color::new on a triple
ColorOf(t, a) == Color(t[1], t[2], t[3], a)

\* c1*x + c2*y + c3*z, evaluated left to right as the source writes it
\* (a term `- c * y` of the source is `+ (-c) * y`: negation is exact)
Dot3(c1, c2, c3, x, y, z) == FAdd(FAdd(FMul(c1, x), FMul(c2, y)), FMul(c3, z))

\* the three rows of a matrix applied to (x, y, z)
MatMul(M, x, y, z) ==
  << Dot3(M[1][1], M[1][2], M[1][3], x, y, z),
     Dot3(M[2][1], M[2][2], M[2][3], x, y, z),
     Dot3(M[3][1], M[3][2], M[3][3], x, y, z) >>

\* a matrix applied to a triple
MatVec(M, t) == MatMul(M, t[1], t[2], t[3])

\* linear sRGB -> CIEXYZ (D65), as written in every from_color
RGB_TO_XYZ ==
  << << Dec(4124, 4), Dec(3576, 4), Dec(1805, 4) >>,
     << Dec(2126, 4), Dec(7152, 4), Dec(722, 4) >>,
     << Dec(193, 4), Dec(1192, 4), Dec(9505, 4) >> >>

\* CIEXYZ -> linear sRGB, as written in every to_color
XYZ_TO_RGB ==
  << << Dec(32406, 4), Dec(-15372, 4), Dec(-4986, 4) >>,
     << Dec(-9689, 4), Dec(18758, 4), Dec(415, 4) >>,
     << Dec(557, 4), Dec(-2040, 4), Dec(10570, 4) >> >>

\* the lines `let x = 0.4124 * c.r + ...` of a from_color: <<x, y, z>>
ToXyz(c) == MatMul(RGB_TO_XYZ, c.r, c.g, c.b)

\* the lines `let r = 3.2406 * x - ...; Color::new(r, g, b, alpha)` of a to_color
ColorOfXyz(t, alpha) == ColorOf(MatVec(XYZ_TO_RGB, t), alpha)

\* const EPSILON: f64 = 1e-10 (adobe_rgb, display_p3, hsl, hsv, hwb, luv, oklab)
EPSILON == FDiv(One, Pow10F(10))

-----------------------------------------------------------------------------
(* Xyz *)

Xyz_to_color(v) == ColorOfXyz(<< v.x, v.y, v.z >>, v.alpha)

XyzOf(t, alpha) == [x |-> t[1], y |-> t[2], z |-> t[3], alpha |-> alpha]

Xyz_from_color(c) == XyzOf(ToXyz(c), c.a)

-----------------------------------------------------------------------------
(* Srgb *)

srgb_to_linear(c) ==
  IF FLe(c, Dec(4045, 5)) THEN FDiv(c, Dec(1292, 2))
  ELSE Powf(FDiv(FAdd(c, Dec(55, 3)), Dec(1055, 3)), Dec(24, 1))

linear_to_srgb(c) ==
  IF FLe(c, Dec(31308, 7)) THEN FMul(Dec(1292, 2), c)
  ELSE FSub(FMul(Dec(1055, 3), Powf(c, FDiv(One, Dec(24, 1)))), Dec(55, 3))

Srgb_to_color(v) ==
  Color(srgb_to_linear(v.r), srgb_to_linear(v.g), srgb_to_linear(v.b), v.a)

Srgb_from_color(c) ==
  [r |-> linear_to_srgb(c.r), g |-> linear_to_srgb(c.g),
   b |-> linear_to_srgb(c.b), a |-> c.a]

-----------------------------------------------------------------------------
(* AdobeRgb *)

ADOBE_TO_XYZ ==
  << << Dec(57667, 5), Dec(18556, 5), Dec(18823, 5) >>,
     << Dec(29734, 5), Dec(62736, 5), Dec(7529, 5) >>,
     << Dec(2703, 5), Dec(7069, 5), Dec(99134, 5) >> >>

XYZ_TO_ADOBE ==
  << << Dec(204159, 5), Dec(-56501, 5), Dec(-34473, 5) >>,
     << Dec(-96924, 5), Dec(187597, 5), Dec(4156, 5) >>,
     << Dec(1344, 5), Dec(-11836, 5), Dec(101517, 5) >> >>

\* if c.abs() < EPSILON { 0.0 } else { c.powf(g) }
AdobePow(c, g) == IF FLt(FAbs(c), EPSILON) THEN Zero ELSE Powf(c, g)

AdobeRgb_to_color(v) ==
  LET inv_gamma == FDiv(FromInt(563), FromInt(256))
      r_lin == AdobePow(v.r, inv_gamma)
      g_lin == AdobePow(v.g, inv_gamma)
      b_lin == AdobePow(v.b, inv_gamma)
  IN ColorOfXyz(MatMul(ADOBE_TO_XYZ, r_lin, g_lin, b_lin), v.a)

\* the gamma encoding of AdobeRgb::from_color on the linear channels
AdobeEncode(lin, gamma, a) ==
  [r |-> AdobePow(lin[1], gamma), g |-> AdobePow(lin[2], gamma),
   b |-> AdobePow(lin[3], gamma), a |-> a]

AdobeRgb_from_color(c) ==
  AdobeEncode(MatVec(XYZ_TO_ADOBE, ToXyz(c)), FDiv(FromInt(256), FromInt(563)), c.a)

-----------------------------------------------------------------------------
(* Rec2020 *)

REC2020_TO_XYZ ==
  << << Dec(636958, 6), Dec(144617, 6), Dec(168881, 6) >>,
     << Dec(2627, 4), Dec(678, 3), Dec(593, 4) >>,
     << Zero, Dec(28073, 6), Dec(1060985, 6) >> >>

\* the XYZ -> linear sRGB matrix of rec2020.rs (six digits)
XYZ_TO_RGB_2020 ==
  << << Dec(3240969, 6), Dec(-1537383, 6), Dec(-498611, 6) >>,
     << Dec(-969244, 6), Dec(1875968, 6), Dec(41555, 6) >>,
     << Dec(5563, 5), Dec(-203977, 6), Dec(1056972, 6) >> >>

XYZ_TO_REC2020 ==
  << << Dec(17166634, 7), Dec(-3556733, 7), Dec(-2533681, 7) >>,
     << Dec(-6666738, 7), Dec(16164557, 7), Dec(157683, 7) >>,
     << Dec(176425, 7), Dec(-427769, 7), Dec(9422433, 7) >> >>

\* c.max(0.0) alone: no upper limit
ClampBelow(c) == FMax(c, Zero)

\* |c: f64| c.max(0.0).min(1.0)
clamp01(c) == FMin(FMax(c, Zero), One)

\* |c: f64| clamp01(c).powf(2.4)
inv_gamma(c) == Powf(clamp01(c), Dec(24, 1))

\* |c: f64| clamp01(c).powf(1.0 / 2.4)
gamma_encode(c) == Powf(clamp01(c), FDiv(One, Dec(24, 1)))

Rec2020_to_color(v) ==
  ColorOf(MatVec(XYZ_TO_RGB_2020,
                 MatMul(REC2020_TO_XYZ, inv_gamma(v.r), inv_gamma(v.g), inv_gamma(v.b))),
          v.a)

\* the gamma encoding of Rec2020::from_color on the linear channels
Rec2020Encode(lin, a) ==
  [r |-> gamma_encode(lin[1]), g |-> gamma_encode(lin[2]),
   b |-> gamma_encode(lin[3]), a |-> a]

Rec2020_from_color(c) == Rec2020Encode(MatVec(XYZ_TO_REC2020, ToXyz(c)), c.a)

-----------------------------------------------------------------------------
(* DisplayP3 *)

XYZ_TO_P3 ==
  << << Dec(12249, 4), Dec(-2247, 4), Dec(-40, 4) >>,
     << Dec(-420, 4), Dec(10419, 4), Dec(1, 4) >>,
     << Zero, Dec(-776, 4), Dec(9398, 4) >> >>

\* the closure `decode` of DisplayP3::to_color
decode(c) ==
  IF FLe(c, Dec(4045, 5)) THEN FDiv(c, Dec(1292, 2))
  ELSE Powf(FDiv(FAdd(c, Dec(55, 3)), Dec(1055, 3)), Dec(24, 1))

\* the closure `encode` of DisplayP3::from_color
encode(c) ==
  IF FLe(c, Dec(31308, 7)) THEN FMul(Dec(1292, 2), c)
  ELSE FSub(FMul(Dec(1055, 3), Powf(c, FDiv(One, Dec(24, 1)))), Dec(55, 3))

\* P3 -> XYZ; the z row has no red term
P3ToXyz(r_lin, g_lin, b_lin) ==
  << Dot3(Dec(486569, 6), Dec(265673, 6), Dec(198187, 6), r_lin, g_lin, b_lin),
     Dot3(Dec(228973, 6), Dec(691752, 6), Dec(792749, 7), r_lin, g_lin, b_lin),
     FAdd(FMul(Dec(451143, 7), g_lin), FMul(Dec(104379, 5), b_lin)) >>

DisplayP3_to_color(v) ==
  ColorOfXyz(P3ToXyz(decode(v.r), decode(v.g), decode(v.b)), v.a)

\* the gamma encoding of DisplayP3::from_color on the linear channels
P3Encode(lin, a) ==
  [r |-> encode(lin[1]), g |-> encode(lin[2]), b |-> encode(lin[3]), a |-> a]

DisplayP3_from_color(c) == P3Encode(MatVec(XYZ_TO_P3, ToXyz(c)), c.a)

-----------------------------------------------------------------------------
(* Hsl *)

ONE_SIXTH == FDiv(One, FromInt(6))
ONE_THIRD == FDiv(One, FromInt(3))
ONE_HALF == Half
\* two thirds cut to two digits
TwoThirdsShort == Dec(66, 2)
TWO_THIRDS == FDiv(Two, FromInt(3))

\* hue_to_rgb without the wrap of t into [0,1]
HueNoWrap(p, q, t) ==
  IF FLt(t, ONE_SIXTH) THEN FAdd(p, FMul(FMul(FSub(q, p), FromInt(6)), t))
  ELSE IF FLt(t, ONE_HALF) THEN q
  ELSE IF FLt(t, TWO_THIRDS)
    THEN FAdd(p, FMul(FMul(FSub(q, p), FSub(TWO_THIRDS, t)), FromInt(6)))
  ELSE p

hue_to_rgb(p, q, t0) ==
  LET t1 == IF FLt(t0, Zero) THEN FAdd(t0, One) ELSE t0
      t == IF FGt(t1, One) THEN FSub(t1, One) ELSE t1
  IN IF FLt(t, ONE_SIXTH) THEN FAdd(p, FMul(FMul(FSub(q, p), FromInt(6)), t))
     ELSE IF FLt(t, ONE_HALF) THEN q
     ELSE IF FLt(t, TWO_THIRDS)
       THEN FAdd(p, FMul(FMul(FSub(q, p), FSub(TWO_THIRDS, t)), FromInt(6)))
     ELSE p

Hsl_to_color(v) ==
  LET h == FDiv(v.h, FromInt(360))
      s == v.s
      l == v.l
      q == IF FLt(l, Half) THEN FMul(l, FAdd(One, s))
           ELSE FSub(FAdd(l, s), FMul(l, s))
      p == FSub(FMul(Two, l), q)
  IN Color(hue_to_rgb(p, q, FAdd(h, ONE_THIRD)),
           hue_to_rgb(p, q, h),
           hue_to_rgb(p, q, FSub(h, ONE_THIRD)),
           v.a)

Hsl_from_color(c) ==
  LET r == c.r
      g == c.g
      b == c.b
      max == FMax(FMax(r, g), b)
      min == FMin(FMin(r, g), b)
      l == FDiv(FAdd(max, min), Two)
      d == FSub(max, min)
      achromatic == FEq(max, min) \/ FLt(FAbs(d), EPSILON)
      s == IF FGt(l, Half) THEN FDiv(d, FSub(FSub(Two, max), min))
           ELSE FDiv(d, FAdd(max, min))
      h == IF FEq(max, r)
             THEN FDiv(FAdd(FDiv(FSub(g, b), d),
                            IF FLt(g, b) THEN FromInt(6) ELSE Zero), FromInt(6))
           ELSE IF FEq(max, g)
             THEN FDiv(FAdd(FDiv(FSub(b, r), d), Two), FromInt(6))
           ELSE FDiv(FAdd(FDiv(FSub(r, g), d), FromInt(4)), FromInt(6))
  IN IF achromatic THEN [h |-> Zero, s |-> Zero, l |-> l, a |-> c.a]
     ELSE [h |-> FMul(h, FromInt(360)), s |-> s, l |-> l, a |-> c.a]

-----------------------------------------------------------------------------
(* Hsv *)

Hsv_to_color(hsv) ==
  LET h == FDiv(hsv.h, FromInt(60))
      s == hsv.s
      v == hsv.v
      i == ToI32(FFloor(h))
      f == FSub(h, FromInt(i))
      one_minus_s == FSub(One, s)
      s_times_f == FMul(s, f)
      s_times_one_minus_f == FMul(s, FSub(One, f))
      p == FMul(v, one_minus_s)
      q == FMul(v, FSub(One, s_times_f))
      t == FMul(v, FSub(One, s_times_one_minus_f))
      k == RemEuclid(i, 6)
  IN CASE k = 0 -> Color(v, t, p, hsv.a)
       [] k = 1 -> Color(q, v, p, hsv.a)
       [] k = 2 -> Color(p, v, t, hsv.a)
       [] k = 3 -> Color(p, q, v, hsv.a)
       [] k = 4 -> Color(t, p, v, hsv.a)
       [] OTHER -> Color(v, p, q, hsv.a)

Hsv_from_color(c) ==
  LET r == c.r
      g == c.g
      b == c.b
      max == FMax(FMax(r, g), b)
      min == FMin(FMin(r, g), b)
      v == max
      d == FSub(max, min)
      s == IF ~FEq(max, Zero) THEN FDiv(d, max) ELSE Zero
      h6 == IF FEq(max, r) THEN FMod(FDiv(FSub(g, b), d), FromInt(6))
            ELSE IF FEq(max, g) THEN FAdd(FDiv(FSub(b, r), d), Two)
            ELSE FAdd(FDiv(FSub(r, g), d), FromInt(4))
      h == IF FEq(d, Zero) THEN Zero ELSE FMul(FromInt(60), h6)
  IN [h |-> IF FLt(h, Zero) THEN FAdd(h, FromInt(360)) ELSE h,
      s |-> s, v |-> v, a |-> c.a]

-----------------------------------------------------------------------------
(* Hwb *)

\* Hwb::to_color with an opaque gray branch
HwbOpaqueGray(v) ==
  LET w == FClamp(v.w, Zero, One)
      bl == FClamp(v.b, Zero, One)
      sum == FAdd(w, bl)
      gray == FDiv(w, sum)
      val == FSub(One, bl)
  IN IF FGe(sum, One) THEN Color(gray, gray, gray, One)
     ELSE Hsv_to_color([h |-> v.h, s |-> FSub(One, FDiv(w, val)), v |-> val, a |-> v.a])

Hwb_to_color(v) ==
  LET w == FClamp(v.w, Zero, One)
      bl == FClamp(v.b, Zero, One)
      sum == FAdd(w, bl)
      denom == IF FLt(FAbs(sum), EPSILON) THEN EPSILON ELSE sum
      gray == FDiv(w, denom)
      val == FSub(One, bl)
      s == IF FGt(val, EPSILON) THEN FSub(One, FDiv(w, val)) ELSE Zero
  IN IF FGe(sum, One) THEN Color(gray, gray, gray, v.a)
     ELSE Hsv_to_color([h |-> v.h, s |-> s, v |-> val, a |-> v.a])

\* Hwb::from_color with the blackness taken as the maximum channel
HwbFromMax(c) ==
  [h |-> Hsv_from_color(c).h, w |-> FMin(FMin(c.r, c.g), c.b),
   b |-> FMax(FMax(c.r, c.g), c.b), a |-> c.a]

Hwb_from_color(c) ==
  LET hsv == Hsv_from_color(c)
      w == FMin(FMin(c.r, c.g), c.b)
      bl == FSub(One, FMax(FMax(c.r, c.g), c.b))
  IN [h |-> hsv.h, w |-> w, b |-> bl, a |-> hsv.a]

-----------------------------------------------------------------------------
(* Lab *)

XN == Dec(95047, 5)
YN == One
ZN == Dec(108883, 5)

\* fn f(t) of lab.rs
f(t) ==
  LET eps == Powi3(FDiv(FromInt(6), FromInt(29)))
      k == FMul(FDiv(One, FromInt(3)), Powi2(FDiv(FromInt(29), FromInt(6))))
      c == FDiv(FromInt(4), FromInt(29))
  IN IF FGt(t, eps)
       THEN (IF FLt(FAbs(t), EPSILON) THEN Zero ELSE Powf(t, FDiv(One, FromInt(3))))
     ELSE FAdd(FMul(k, t), c)

\* f_inv with the threshold of f, (6/29)^3, in place of 6/29
FInvLowThreshold(u) ==
  IF FGt(u, Powi3(FDiv(FromInt(6), FromInt(29)))) THEN Powi3(u)
  ELSE FMul(FMul(FromInt(3), Powi2(FDiv(FromInt(6), FromInt(29)))),
            FSub(u, FDiv(FromInt(4), FromInt(29))))

\* fn f_inv(u) of lab.rs
f_inv(u) ==
  LET eps == FDiv(FromInt(6), FromInt(29))
      k == FMul(FromInt(3), Powi2(FDiv(FromInt(6), FromInt(29))))
      c == FDiv(FromInt(4), FromInt(29))
  IN IF FGt(u, eps)
       THEN (IF FLt(FAbs(u), EPSILON) THEN Zero ELSE Powi3(u))
     ELSE FMul(k, FSub(u, c))

\* Lab { l, a, b, alpha } from fx, fy, fz
LabOfF(fx, fy, fz, alpha) ==
  [l |-> FSub(FMul(FromInt(116), fy), FromInt(16)),
   a |-> FMul(FromInt(500), FSub(fx, fy)),
   b |-> FMul(FromInt(200), FSub(fy, fz)),
   alpha |-> alpha]

\* Lab from t = <<x, y, z>>
LabOfXyz(t, alpha) ==
  LabOfF(f(FDiv(t[1], XN)), f(FDiv(t[2], YN)), f(FDiv(t[3], ZN)), alpha)

Lab_from_color(c) == LabOfXyz(ToXyz(c), c.a)

\* the colour of fx, fy, fz
ColorOfF(fx, fy, fz, alpha) ==
  ColorOfXyz(<< FMul(XN, f_inv(fx)), FMul(YN, f_inv(fy)), FMul(ZN, f_inv(fz)) >>, alpha)

\* Lab::to_color from fy = (l + 16) / 116
ColorOfFy(v, fy) ==
  ColorOfF(FAdd(fy, FDiv(v.a, FromInt(500))), fy, FSub(fy, FDiv(v.b, FromInt(200))),
           v.alpha)

Lab_to_color(v) == ColorOfFy(v, FDiv(FAdd(v.l, FromInt(16)), FromInt(116)))

-----------------------------------------------------------------------------
(* Lch *)

\* <<c * cos h, c * sin h>> from sc = <<sin h, cos h>>
PolarOf(c, sc) == << FMul(c, sc[2]), FMul(c, sc[1]) >>

\* <<a, b>> of Lch::to_color and Oklch::to_color, with their chroma guard
Polar(c, h) ==
  PolarOf(IF FLt(FAbs(c), EPSILON) THEN Zero ELSE c, SinCos(ToRadians(h)))

\* if h < 0.0 { h += 360.0 }
WrapHue(h) == IF FLt(h, Zero) THEN FAdd(h, FromInt(360)) ELSE h

\* the hue of Lch::from_color and Oklch::from_color
Hue(a, b, c_val) ==
  WrapHue(IF FLt(FAbs(c_val), EPSILON) THEN Zero ELSE ToDegrees(Atan2(b, a)))

\* Lab { l, a, b, alpha } with <<a, b>> = ab
LabOfPolar(l, ab, alpha) == [l |-> l, a |-> ab[1], b |-> ab[2], alpha |-> alpha]

Lch_to_color(v) ==
  Strict(Polar(v.c, v.h), LAMBDA ab : Lab_to_color(LabOfPolar(v.l, ab, v.a)))

\* sqrt(a * a + b * b)
Chroma(lab) == FSqrt(FAdd(FMul(lab.a, lab.a), FMul(lab.b, lab.b)))

LchOfChroma(lab, c_val) ==
  [l |-> lab.l, c |-> c_val, h |-> Hue(lab.a, lab.b, c_val), a |-> lab.alpha]

LchOfLab(lab) == LchOfChroma(lab, Chroma(lab))

Lch_from_color(c) == Strict(Lab_from_color(c), LchOfLab)

-----------------------------------------------------------------------------
(* Luv *)

XN_LUV == Dec(95047, 5)
YN_LUV == One
ZN_LUV == Dec(108883, 5)

\* x + 15.0 * y + 3.0 * z
UvDenom(x, y, z) == FAdd(FAdd(x, FMul(FromInt(15), y)), FMul(FromInt(3), z))

\* if denom.abs() < EPSILON { 0.0 } else { num / denom }
UvRatio(num, denom) == IF FLt(FAbs(denom), EPSILON) THEN Zero ELSE FDiv(num, denom)

u_prime(x, y, z) == UvRatio(FMul(FromInt(4), x), UvDenom(x, y, z))

v_prime(x, y, z) == UvRatio(FMul(FromInt(9), y), UvDenom(x, y, z))

\* yr of Luv::to_color
LuvYr(l) ==
  IF FGt(l, FromInt(8)) THEN Powi3(FDiv(FAdd(l, FromInt(16)), FromInt(116)))
  ELSE FDiv(l, Dec(9033, 1))

\* up and vp of Luv::to_color: if l.abs() < EPSILON { ref } else { c / (13.0 * l) + ref }
LuvPrime(c, l, ref) ==
  IF FLt(FAbs(l), EPSILON) THEN ref ELSE FAdd(FDiv(c, FMul(FromInt(13), l)), ref)

\* x, y, z and the colour of Luv::to_color
ColorOfYuv(yr, up, vp, vp_denom, alpha) ==
  ColorOfXyz(<< FDiv(FMul(FMul(yr, FromInt(9)), up), vp_denom),
                yr,
                FDiv(FMul(yr, FSub(FSub(FromInt(12), FMul(FromInt(3), up)),
                                   FMul(FromInt(20), vp))), vp_denom) >>,
             alpha)

\* vp_denom = (4.0 * vp).abs().max(EPSILON)
ColorOfYr(yr, up, vp, alpha) ==
  ColorOfYuv(yr, up, vp, FMax(FAbs(FMul(FromInt(4), vp)), EPSILON), alpha)

Luv_to_color(luv) ==
  ColorOfYr(LuvYr(luv.l),
            LuvPrime(luv.u, luv.l, u_prime(XN_LUV, YN_LUV, ZN_LUV)),
            LuvPrime(luv.v, luv.l, v_prime(XN_LUV, YN_LUV, ZN_LUV)),
            luv.alpha)

\* l of Luv::from_color
LuvL(yr) ==
  IF FGt(yr, Dec(8856, 6))
    THEN FSub(FMul(FromInt(116), Powf(yr, FDiv(One, FromInt(3)))), FromInt(16))
  ELSE FMul(Dec(9033, 1), yr)

\* Luv { l, u, v, alpha } from l and the chromaticities
LuvOfL(l, ur_p, vr_p, ur_n, vr_n, alpha) ==
  [l |-> l,
   u |-> FMul(FMul(FromInt(13), l), FSub(ur_p, ur_n)),
   v |-> FMul(FMul(FromInt(13), l), FSub(vr_p, vr_n)),
   alpha |-> alpha]

\* Luv from t = <<x, y, z>>
LuvOfXyz(t, alpha) ==
  LuvOfL(LuvL(FDiv(t[2], YN_LUV)),
         u_prime(t[1], t[2], t[3]), v_prime(t[1], t[2], t[3]),
         u_prime(XN_LUV, YN_LUV, ZN_LUV), v_prime(XN_LUV, YN_LUV, ZN_LUV), alpha)

Luv_from_color(c) == LuvOfXyz(ToXyz(c), c.a)

-----------------------------------------------------------------------------
(* Oklab *)

\* fn clamp(val, min, max) of oklab.rs
clamp(val, min, max) ==
  IF FLt(val, min) THEN min ELSE IF FGt(val, max) THEN max ELSE val

\* if x.abs() < EPSILON { 0.0 } else { x * x * x }
Cubed(x) == IF FLt(FAbs(x), EPSILON) THEN Zero ELSE FMul(FMul(x, x), x)

\* if x.abs() < EPSILON { 0.0 } else { x.powf(1.0 / 3.0) }
CubeRoot(x) ==
  IF FLt(FAbs(x), EPSILON) THEN Zero ELSE Powf(x, FDiv(One, FromInt(3)))

\* l_ = l + 0.3963377774 * a + 0.2158037573 * b, and m_, s_
OKLAB_TO_LMS ==
  << << One, DecF(39633, 77774, 10), DecF(21580, 37573, 10) >>,
     << One, FNeg(DecF(10556, 13458, 10)), FNeg(DecF(6385, 41728, 10)) >>,
     << One, FNeg(DecF(8948, 41775, 10)), FNeg(DecF(129148, 55480, 10)) >> >>

LMS_TO_RGB ==
  << << DecF(407674, 16621, 10), FNeg(DecF(330771, 15913, 10)), DecF(23096, 99292, 10) >>,
     << FNeg(DecF(126843, 80046, 10)), DecF(260975, 74011, 10), FNeg(DecF(34131, 93965, 10)) >>,
     << DecF(419, 60863, 10), FNeg(DecF(70341, 86147, 10)), DecF(170761, 47010, 10) >> >>

RGB_TO_LMS ==
  << << DecF(41222, 14708, 10), DecF(53633, 25363, 10), DecF(5144, 59929, 10) >>,
     << DecF(21190, 34982, 10), DecF(68069, 95451, 10), DecF(10739, 69566, 10) >>,
     << DecF(8830, 24619, 10), DecF(28171, 88376, 10), DecF(62997, 87005, 10) >> >>

LMS_TO_OKLAB ==
  << << DecF(21045, 42553, 10), DecF(79361, 77850, 10), FNeg(DecF(407, 20468, 10)) >>,
     << DecF(197799, 84951, 10), FNeg(DecF(242859, 22050, 10)), DecF(45059, 37099, 10) >>,
     << DecF(2590, 40371, 10), DecF(78277, 17662, 10), FNeg(DecF(80867, 57660, 10)) >> >>

\* l_cubed, m_cubed, s_cubed
Cubes(t) == << Cubed(t[1]), Cubed(t[2]), Cubed(t[3]) >>

\* the clamped colour of Oklab::to_color from t = <<r, g, b>>
ClampedColor(t, alpha) ==
  Color(clamp(t[1], Zero, One), clamp(t[2], Zero, One), clamp(t[3], Zero, One),
        clamp(alpha, Zero, One))

Oklab_to_color(v) ==
  ClampedColor(MatVec(LMS_TO_RGB, Cubes(MatMul(OKLAB_TO_LMS, v.l, v.a, v.b))), v.alpha)

\* l_, m_, s_ of Oklab::from_color
CubeRoots(t) == << CubeRoot(t[1]), CubeRoot(t[2]), CubeRoot(t[3]) >>

\* the clamped Oklab of Oklab::from_color from t = <<l_final, a_final, b_final>>
ClampedOklab(t, alpha) ==
  [l |-> clamp(t[1], Zero, One),
   a |-> clamp(t[2], FNeg(Half), Half),
   b |-> clamp(t[3], FNeg(Half), Half),
   alpha |-> clamp(alpha, Zero, One)]

Oklab_from_color(c) ==
  ClampedOklab(
    MatVec(LMS_TO_OKLAB,
           CubeRoots(MatMul(RGB_TO_LMS, clamp(c.r, Zero, One), clamp(c.g, Zero, One),
                            clamp(c.b, Zero, One)))),
    c.a)

-----------------------------------------------------------------------------
(* Oklch *)

Oklch_to_color(v) ==
  Strict(Polar(v.c, v.h), LAMBDA ab : Oklab_to_color(LabOfPolar(v.l, ab, v.alpha)))

OklchOfChroma(lab, c_val) ==
  [l |-> lab.l, c |-> c_val, h |-> Hue(lab.a, lab.b, c_val), alpha |-> lab.alpha]

OklchOfOklab(lab) == OklchOfChroma(lab, Chroma(lab))

Oklch_from_color(c) == Strict(Oklab_from_color(c), OklchOfOklab)

-----------------------------------------------------------------------------
(* The state machine: a program constructs a value of some space and        *)
(* converts it, through the pivot, at most MaxChain - 1 times.  trace is the *)
(* chain of values so far; each entry records the space of the value, the   *)
(* value and the operation that produced it.                                *)

VARIABLES trace
vars == << trace >>

Step(op, space, val) == [op |-> op, space |-> space, val |-> val]
Last == trace[Len(trace)]
New(space, val) == trace = << Step("new", space, val) >>

\* the latest value is of the given space and the chain may grow
Holds(space) == Len(trace) < MaxChain /\ Last.space = space
\* the result of a conversion becomes the latest value
Push(op, space, result) == trace' = Append(trace, Step(op, space, result))

\* Hsl::to_color(&v) on the latest value
HslToColor ==
  /\ Holds("Hsl")
  /\ Push("to_color", "Color", Hsl_to_color(Last.val))
\* Hsl::from_color(&c) on the latest value, a pivot colour
HslFromColor ==
  /\ Holds("Color")
  /\ Push("from_color", "Hsl", Hsl_from_color(Last.val))
\* Hsv::to_color(&v) on the latest value
HsvToColor ==
  /\ Holds("Hsv")
  /\ Push("to_color", "Color", Hsv_to_color(Last.val))
\* Hsv::from_color(&c) on the latest value, a pivot colour
HsvFromColor ==
  /\ Holds("Color")
  /\ Push("from_color", "Hsv", Hsv_from_color(Last.val))
\* Hwb::to_color(&v) on the latest value
HwbToColor ==
  /\ Holds("Hwb")
  /\ Push("to_color", "Color", Hwb_to_color(Last.val))
\* Hwb::from_color(&c) on the latest value, a pivot colour
HwbFromColor ==
  /\ Holds("Color")
  /\ Push("from_color", "Hwb", Hwb_from_color(Last.val))

\* Srgb::to_color(&v) on the latest value
SrgbToColor ==
  /\ Holds("Srgb")
  /\ Push("to_color", "Color", Srgb_to_color(Last.val))
\* Srgb::from_color(&c) on the latest value, a pivot colour
SrgbFromColor ==
  /\ Holds("Color")
  /\ Push("from_color", "Srgb", Srgb_from_color(Last.val))
\* DisplayP3::to_color(&v) on the latest value
DisplayP3ToColor ==
  /\ Holds("DisplayP3")
  /\ Push("to_color", "Color", DisplayP3_to_color(Last.val))
\* DisplayP3::from_color(&c) on the latest value, a pivot colour
DisplayP3FromColor ==
  /\ Holds("Color")
  /\ Push("from_color", "DisplayP3", DisplayP3_from_color(Last.val))
\* AdobeRgb::to_color(&v) on the latest value
AdobeRgbToColor ==
  /\ Holds("AdobeRgb")
  /\ Push("to_color", "Color", AdobeRgb_to_color(Last.val))
\* AdobeRgb::from_color(&c) on the latest value, a pivot colour
AdobeRgbFromColor ==
  /\ Holds("Color")
  /\ Push("from_color", "AdobeRgb", AdobeRgb_from_color(Last.val))
\* Rec2020::to_color(&v) on the latest value
Rec2020ToColor ==
  /\ Holds("Rec2020")
  /\ Push("to_color", "Color", Rec2020_to_color(Last.val))
\* Rec2020::from_color(&c) on the latest value, a pivot colour
Rec2020FromColor ==
  /\ Holds("Color")
  /\ Push("from_color", "Rec2020", Rec2020_from_color(Last.val))

\* Xyz::to_color(&v) on the latest value
XyzToColor ==
  /\ Holds("Xyz")
  /\ Push("to_color", "Color", Xyz_to_color(Last.val))
\* Xyz::from_color(&c) on the latest value, a pivot colour
XyzFromColor ==
  /\ Holds("Color")
  /\ Push("from_color", "Xyz", Xyz_from_color(Last.val))
\* Lab::to_color(&v) on the latest value
LabToColor ==
  /\ Holds("Lab")
  /\ Push("to_color", "Color", Lab_to_color(Last.val))
\* Lab::from_color(&c) on the latest value, a pivot colour
LabFromColor ==
  /\ Holds("Color")
  /\ Push("from_color", "Lab", Lab_from_color(Last.val))
\* Lch::to_color(&v) on the latest value
LchToColor ==
  /\ Holds("Lch")
  /\ Push("to_color", "Color", Lch_to_color(Last.val))
\* Lch::from_color(&c) on the latest value, a pivot colour
LchFromColor ==
  /\ Holds("Color")
  /\ Push("from_color", "Lch", Lch_from_color(Last.val))
\* Luv::to_color(&v) on the latest value
LuvToColor ==
  /\ Holds("Luv")
  /\ Push("to_color", "Color", Luv_to_color(Last.val))
\* Luv::from_color(&c) on the latest value, a pivot colour
LuvFromColor ==
  /\ Holds("Color")
  /\ Push("from_color", "Luv", Luv_from_color(Last.val))

\* Oklab::to_color(&v) on the latest value
OklabToColor ==
  /\ Holds("Oklab")
  /\ Push("to_color", "Color", Oklab_to_color(Last.val))
\* Oklab::from_color(&c) on the latest value, a pivot colour
OklabFromColor ==
  /\ Holds("Color")
  /\ Push("from_color", "Oklab", Oklab_from_color(Last.val))
\* Oklch::to_color(&v) on the latest value
OklchToColor ==
  /\ Holds("Oklch")
  /\ Push("to_color", "Color", Oklch_to_color(Last.val))
\* Oklch::from_color(&c) on the latest value, a pivot colour
OklchFromColor ==
  /\ Holds("Color")
  /\ Push("from_color", "Oklch", Oklch_from_color(Last.val))

-----------------------------------------------------------------------------
(* Values the program is run on.  Channels are drawn from small sets that   *)
(* hold the documented domain, its edges, out-of-domain (negative, HDR) and *)
(* very large finite values.                                                *)

\* a finite f64 above f64::MAX / 2
Huge == Norm(1, 3, 1022)

\* alpha: opaque, translucent, and outside [0,1]
AlphaIn == {One, Half}
AlphaOut == {Two, Dec(-5, 1)}

\* {v : v = mk(c1, c2, c3, a)} with the alpha channel varied on one value only
Values3(A, B, C, mk(_, _, _, _)) == {mk(a, b, c, One) : a \in A, b \in B, c \in C}
Alphas(c1, c2, c3, mk(_, _, _, _)) ==
  {mk(c1, c2, c3, a) : a \in (AlphaIn \cup AlphaOut) \ {One}}

Hsl(h, s, l, a) == [h |-> h, s |-> s, l |-> l, a |-> a]
Hsv(h, s, v, a) == [h |-> h, s |-> s, v |-> v, a |-> a]
Hwb(h, w, b, a) == [h |-> h, w |-> w, b |-> b, a |-> a]

\* pivot channels: in gamut, negative, HDR
PivotCh == {Dec(-5, 1), Zero, Dec(25, 2), Half, One, Dec(15, 1)}
\* magnitudes below EPSILON
Tiny == {FDiv(One, Pow10F(11)), FDiv(Two, Pow10F(11))}

\* the f64 next below 0.5
HalfBelow == Norm(1, 2^SigBits - 1, -(SigBits + 1))
\* a pivot colour with max = r and g one unit in the last place below b
HsvEdge == Color(One, HalfBelow, Half, One)

\* a pivot colour one unit in the last place away from the gray 0.5
GrayEdge == Color(Half, Half, HalfBelow, One)

ColorsHue ==
  Values3(PivotCh, PivotCh, PivotCh, Color)
    \cup {HsvEdge, GrayEdge}
    \cup Values3(Tiny, Tiny, Tiny, Color)
    \cup Values3({Huge, One}, {Huge, One}, {Huge, FNeg(Huge)}, Color)
    \cup Alphas(Half, Half, Half, Color)

HueCh == {Zero, FromInt(60), FromInt(120), FromInt(123), FromInt(240), Dec(3595, 1),
          FromInt(-30), FromInt(400)}
UnitCh == {Zero, Dec(25, 2), Half, Dec(75, 2), One}

HslValues ==
  Values3(HueCh, UnitCh, UnitCh, Hsl) \cup Alphas(FromInt(123), Half, Half, Hsl)
HsvValues ==
  Values3(HueCh, UnitCh, UnitCh, Hsv) \cup Alphas(FromInt(123), Half, Half, Hsv)

WbCh == {Dec(-5, 1), Zero, Dec(4, 1), Dec(6, 1), One, Dec(15, 1), Huge}
HwbValues ==
  Values3({Zero, FromInt(123), FromInt(400)}, WbCh, WbCh, Hwb)
    \cup Alphas(Zero, Dec(6, 1), Dec(6, 1), Hwb)
    \cup Values3({FromInt(123), FromInt(240)}, {Dec(25, 2)}, {Zero, Half}, Hwb)
    \cup {Hwb(FromInt(123), HalfBelow, HalfBelow, One)}

InitHue ==
  \/ \E c \in ColorsHue : New("Color", c)
  \/ \E v \in HslValues : New("Hsl", v)
  \/ \E v \in HsvValues : New("Hsv", v)
  \/ \E v \in HwbValues : New("Hwb", v)

NextHue ==
  \/ HslToColor \/ HslFromColor
  \/ HsvToColor \/ HsvFromColor
  \/ HwbToColor \/ HwbFromColor

\* a program that uses the cylindrical sRGB spaces
SpecHue == InitHue /\ [][NextHue]_vars

\* RGB channels: in range, negative, above 1
RgbCh == {Dec(-5, 1), Zero, Half, One, Dec(15, 1)}
RgbValues ==
  Values3(RgbCh, RgbCh, RgbCh, Color)
    \cup Alphas(Half, Half, Half, Color)
    \cup Alphas(Dec(15, 1), Dec(-5, 1), Half, Color)

ColorsRgb ==
  Values3(PivotCh, PivotCh, PivotCh, Color)
    \cup Values3({Huge, One}, {Huge, One}, {Huge, FNeg(Huge)}, Color)
    \cup Alphas(Half, Half, Half, Color)

InitRgb ==
  \/ \E c \in ColorsRgb : New("Color", c)
  \/ \E v \in RgbValues : New("Srgb", v)
  \/ \E v \in RgbValues : New("DisplayP3", v)
  \/ \E v \in RgbValues : New("AdobeRgb", v)
  \/ \E v \in RgbValues : New("Rec2020", v)

NextRgb ==
  \/ SrgbToColor \/ SrgbFromColor
  \/ DisplayP3ToColor \/ DisplayP3FromColor
  \/ AdobeRgbToColor \/ AdobeRgbFromColor
  \/ Rec2020ToColor \/ Rec2020FromColor

\* a program that uses the RGB spaces
SpecRgb == InitRgb /\ [][NextRgb]_vars

Xyz(x, y, z, alpha) == [x |-> x, y |-> y, z |-> z, alpha |-> alpha]
Lab(l, a, b, alpha) == [l |-> l, a |-> a, b |-> b, alpha |-> alpha]
Lch(l, c, h, a) == [l |-> l, c |-> c, h |-> h, a |-> a]
Luv(l, u, v, alpha) == [l |-> l, u |-> u, v |-> v, alpha |-> alpha]

\* a pivot colour whose Lab b is one unit in the last place below zero
HueEdge == Color(One, Zero, Norm(1, 130654736, -29), One)

ColorsCie ==
  Values3(PivotCh, PivotCh, PivotCh, Color)
    \cup {HueEdge}
    \cup Values3({Huge, One}, {Huge, One}, {Huge, FNeg(Huge)}, Color)
    \cup Alphas(Half, Half, Half, Color)

\* tristimulus channels: the domain [0,1] and outside it
XyzCh == {Dec(-5, 1), Zero, Dec(25, 2), Half, One, Dec(15, 1)}
XyzValues == Values3(XyzCh, XyzCh, XyzCh, Xyz) \cup Alphas(Half, Half, Half, Xyz)

LightCh == {Zero, FromInt(50), FromInt(100), FromInt(-10)}
AbCh == {FromInt(-50), Zero, FromInt(50)}
LabValues == Values3(LightCh, AbCh, AbCh, Lab) \cup Alphas(FromInt(50), Zero, Zero, Lab)
LuvValues == Values3(LightCh, AbCh, AbCh, Luv) \cup Alphas(FromInt(50), Zero, Zero, Luv)

ChromaCh == {Zero, FDiv(One, Pow10F(11)), FromInt(30), FromInt(-30)}
LchValues ==
  Values3(LightCh, ChromaCh, HueCh, Lch) \cup Alphas(FromInt(50), Zero, FromInt(123), Lch)

InitCie ==
  \/ \E c \in ColorsCie : New("Color", c)
  \/ \E v \in XyzValues : New("Xyz", v)
  \/ \E v \in LabValues : New("Lab", v)
  \/ \E v \in LchValues : New("Lch", v)
  \/ \E v \in LuvValues : New("Luv", v)

NextCie ==
  \/ XyzToColor \/ XyzFromColor
  \/ LabToColor \/ LabFromColor
  \/ LchToColor \/ LchFromColor
  \/ LuvToColor \/ LuvFromColor

\* a program that uses the CIE spaces
SpecCie == InitCie /\ [][NextCie]_vars

Oklab(l, a, b, alpha) == [l |-> l, a |-> a, b |-> b, alpha |-> alpha]
Oklch(l, c, h, alpha) == [l |-> l, c |-> c, h |-> h, alpha |-> alpha]

ColorsOk ==
  Values3(PivotCh, PivotCh, PivotCh, Color)
    \cup Values3({Huge, One}, {Huge, One}, {Huge, FNeg(Huge)}, Color)
    \cup Alphas(Half, Half, Half, Color)

\* Oklab lightness and opponent channels: in range, outside it, very large
OkLightCh == {Zero, Half, One, Dec(15, 1), Huge}
OkAbCh == {Dec(-6, 1), Dec(-2, 1), Zero, Dec(2, 1), Dec(6, 1), Huge}
OklabValues ==
  Values3(OkLightCh, OkAbCh, OkAbCh, Oklab) \cup Alphas(Half, Zero, Zero, Oklab)

OkChromaCh == {Zero, FDiv(One, Pow10F(11)), Dec(2, 1), Huge}
OklchValues ==
  Values3(OkLightCh, OkChromaCh, HueCh, Oklch)
    \cup Alphas(Half, Dec(2, 1), FromInt(123), Oklch)

InitOk ==
  \/ \E c \in ColorsOk : New("Color", c)
  \/ \E v \in OklabValues : New("Oklab", v)
  \/ \E v \in OklchValues : New("Oklch", v)

NextOk ==
  \/ OklabToColor \/ OklabFromColor
  \/ OklchToColor \/ OklchFromColor

\* a program that uses the Oklab spaces
SpecOk == InitOk /\ [][NextOk]_vars

Init ==
  \/ InitHue
  \/ InitRgb
  \/ InitCie
  \/ InitOk

Next ==
  \/ NextHue
  \/ NextRgb
  \/ NextCie
  \/ NextOk

\* a program that uses every space
Spec == Init /\ [][Next]_vars

\* every alpha of AlphaIn and AlphaOut on each triple of T
WithAlphas(T, mk(_, _, _, _)) ==
  {mk(t[1], t[2], t[3], a) : t \in T, a \in AlphaIn \cup AlphaOut}

RgbTriples == {<< Dec(25, 2), Half, One >>, << Dec(15, 1), Dec(-5, 1), Zero >>}
\* chromatic and achromatic
HueTriples == {<< FromInt(123), Half, Dec(25, 2) >>, << Zero, Zero, Half >>}
\* w + b >= 1 (gray) and w + b < 1
HwbTriples ==
  {<< FromInt(123), Dec(6, 1), Dec(6, 1) >>, << FromInt(123), Dec(25, 2), Dec(25, 2) >>}
LabTriples == {<< FromInt(50), FromInt(-50), FromInt(50) >>, << Zero, Zero, Zero >>}
LchTriples == {<< FromInt(50), FromInt(30), FromInt(123) >>, << FromInt(50), Zero, Zero >>}
OklabTriples == {<< Half, Dec(2, 1), Dec(-2, 1) >>, << One, Zero, Zero >>}
OklchTriples == {<< Half, Dec(2, 1), FromInt(123) >>, << Half, Zero, Zero >>}

InitAlpha ==
  \/ \E c \in WithAlphas(RgbTriples \cup {<< Half, Half, Half >>}, Color) : New("Color", c)
  \/ \E v \in WithAlphas(HueTriples, Hsl) : New("Hsl", v)
  \/ \E v \in WithAlphas(HueTriples, Hsv) : New("Hsv", v)
  \/ \E v \in WithAlphas(HwbTriples, Hwb) : New("Hwb", v)
  \/ \E v \in WithAlphas(RgbTriples, Color) : New("Srgb", v)
  \/ \E v \in WithAlphas(RgbTriples, Color) : New("DisplayP3", v)
  \/ \E v \in WithAlphas(RgbTriples, Color) : New("AdobeRgb", v)
  \/ \E v \in WithAlphas(RgbTriples, Color) : New("Rec2020", v)
  \/ \E v \in WithAlphas(RgbTriples, Xyz) : New("Xyz", v)
  \/ \E v \in WithAlphas(LabTriples, Lab) : New("Lab", v)
  \/ \E v \in WithAlphas(LchTriples, Lch) : New("Lch", v)
  \/ \E v \in WithAlphas(LabTriples, Luv) : New("Luv", v)
  \/ \E v \in WithAlphas(OklabTriples, Oklab) : New("Oklab", v)
  \/ \E v \in WithAlphas(OklchTriples, Oklch) : New("Oklch", v)

\* a program that carries translucent and out-of-range alphas through every space
SpecAlpha == InitAlpha /\ [][Next]_vars

\* f(t) of lab.rs applied to the latest value, an argument t
LabF ==
  /\ Holds("t")
  /\ Push("f", "u", f(Last.val))
\* f_inv(u) of lab.rs applied to the latest value, an argument u
LabFInv ==
  /\ Holds("u")
  /\ Push("f_inv", "t", f_inv(Last.val))

\* (6/29)^3 as f computes it, and its neighbours
LabEps3 == Powi3(FDiv(FromInt(6), FromInt(29)))
NearEps3 == {Fin(1, LabEps3.m + d, LabEps3.e) : d \in -3 .. 3}
\* arguments of f: negative, zero, positive, below 1e-10, around (6/29)^3,
\* large
TValues ==
  {FDiv(FromInt(n), FromInt(16)) : n \in -24 .. 40}
    \cup NearEps3 \cup Tiny \cup {FNeg(x) : x \in Tiny}
    \cup {Dec(1, 3), Dec(5, 3), Dec(9, 3), Dec(2, 2), FromInt(100), FromInt(-100),
          Huge, FNeg(Huge)}

InitLabF == \E t \in TValues : New("t", t)

NextLabF ==
  \/ LabF
  \/ LabFInv

\* Lab's f and f_inv applied in turn to an argument
SpecLabF == InitLabF /\ [][NextLabF]_vars

-----------------------------------------------------------------------------
(* Reading the chain: position i >= 2 holds the result of a conversion     *)
(* whose argument is the value at position i - 1.                          *)

Calls == 2 .. Len(trace)
Arg(i) == trace[i - 1].val
Ret(i) == trace[i].val
\* S::to_color acted at position i
IsTo(i, space) == trace[i].op = "to_color" /\ trace[i - 1].space = space
\* S::from_color acted at position i
IsFrom(i, space) == trace[i].op = "from_color" /\ trace[i].space = space

Finite3(x, y, z) == IsFinite(x) /\ IsFinite(y) /\ IsFinite(z)
FiniteColor(c) == Finite3(c.r, c.g, c.b) /\ IsFinite(c.a)
\* |x| <= bound
Within(x, bound) == IsFinite(x) /\ FLe(FAbs(x), bound)
\* |x - y| <= tol, both finite
Close(x, y, tol) == IsFinite(x) /\ IsFinite(y) /\ FLe(FAbs(FSub(x, y)), tol)
InUnit(x) == IsFinite(x) /\ FGe(x, Zero) /\ FLe(x, One)
UnitRgb(v) == InUnit(v.r) /\ InUnit(v.g) /\ InUnit(v.b)
\* x limited to [0,1]: 0 below 0, 1 above 1
ClampUnit(x) == IF FLt(x, Zero) THEN Zero ELSE IF FGt(x, One) THEN One ELSE x
Tol4 == FDiv(One, FromInt(10000))
Tol6 == FDiv(One, FromInt(1000000))

-----------------------------------------------------------------------------
(* Claims on the cylindrical sRGB spaces (SpecHue)                          *)

\* the pivot colour has channels r, g, b of magnitude at most 2 and a finite alpha
Moderate(c) ==
  Within(c.r, Two) /\ Within(c.g, Two) /\ Within(c.b, Two) /\ IsFinite(c.a)
FiniteHsl(v) == Finite3(v.h, v.s, v.l) /\ IsFinite(v.a)
FiniteHsv(v) == Finite3(v.h, v.s, v.v) /\ IsFinite(v.a)

\* C2: no conversion divides by zero: Hsl::from_color and Hsv::from_color of a
\* finite pivot colour (here with channels of magnitude at most 2, HDR and
\* negative ones included) return finite channels only, and so does
\* Hwb::to_color of a value with finite channels of magnitude at most 2.
C2_NoDivisionByZero ==
  \A i \in Calls :
    /\ IsFrom(i, "Hsl") /\ Moderate(Arg(i)) => FiniteHsl(Ret(i))
    /\ IsFrom(i, "Hsv") /\ Moderate(Arg(i)) => FiniteHsv(Ret(i))
    /\ (IsTo(i, "Hwb") /\ Finite3(Arg(i).h, Arg(i).w, Arg(i).b)
          /\ Within(Arg(i).w, Two) /\ Within(Arg(i).b, Two) /\ IsFinite(Arg(i).a))
         => FiniteColor(Ret(i))

\* the gray of a degenerate Hwb value: w' / (w' + b')
HwbGray(w1, b1) == FDiv(w1, FAdd(w1, b1))
HwbDegenerate(v) == FGe(FAdd(ClampUnit(v.w), ClampUnit(v.b)), One)

\* C7: for every Hwb value with w' = clamp(w,0,1), b' = clamp(b,0,1) and
\* w' + b' >= 1, to_color returns r = g = b = w' / (w' + b') exactly, with
\* alpha unchanged, whatever the hue.
C7_DegenerateHwb ==
  \A i \in Calls :
    IsTo(i, "Hwb") /\ HwbDegenerate(Arg(i)) =>
      /\ Ret(i).r = HwbGray(ClampUnit(Arg(i).w), ClampUnit(Arg(i).b))
      /\ Ret(i).g = Ret(i).r
      /\ Ret(i).b = Ret(i).r
      /\ Ret(i).a = Arg(i).a

\* Hwb{h: 123, w: 1.5, b: 0.6} has been converted: clamped to w' = 1 and
\* b' = 0.6, its gray is 1 / 1.6 = 0.625
C7_Witness ==
  \E i \in Calls :
    /\ IsTo(i, "Hwb")
    /\ Arg(i).h = FromInt(123) /\ Arg(i).w = Dec(15, 1) /\ Arg(i).b = Dec(6, 1)
    /\ Ret(i).r = Dec(625, 3)

\* the three colour channels are one value
Gray(c) == c.r = c.g /\ c.g = c.b
\* max - min of the colour channels is below 1e-10 in magnitude
NearGray(c) ==
  FLt(FAbs(FSub(FMax(FMax(c.r, c.g), c.b), FMin(FMin(c.r, c.g), c.b))), EPSILON)
\* x + x does not overflow: |x| < 2^1023
Doubles(x) == IsFinite(x) /\ IsFinite(FAdd(x, x))

\* what the claim says of Hsl::from_color and Hsv::from_color at position i,
\* for the colours with r = g = b that satisfy ok
AchromaticAt(i, ok(_)) ==
  /\ (IsFrom(i, "Hsl") /\ Gray(Arg(i)) /\ ok(Arg(i).r)) =>
       Ret(i).h = Zero /\ Ret(i).s = Zero /\ Ret(i).l = Arg(i).r
  /\ (IsFrom(i, "Hsv") /\ Gray(Arg(i)) /\ ok(Arg(i).r)) =>
       Ret(i).h = Zero /\ Ret(i).s = Zero /\ Ret(i).v = Arg(i).r
  /\ (IsFrom(i, "Hsl") /\ NearGray(Arg(i))) =>
       Ret(i).h = Zero /\ Ret(i).s = Zero

\* C8: for every pivot colour with r = g = b = c, of any finite value c,
\* Hsl::from_color returns h = 0, s = 0, l = c and Hsv::from_color returns
\* h = 0, s = 0, v = c; Hsl::from_color also returns h = 0, s = 0 whenever
\* max - min is below 1e-10.
C8_AnyValue == \A i \in Calls : AchromaticAt(i, IsFinite)

\* the same for the common values c with |c| < 2^1023, where (max + min) / 2
\* does not overflow
AchromaticBelowHalfMax == \A i \in Calls : AchromaticAt(i, Doubles)

\* Hsl::from_color has acted on the gray (0.5, 0.5, 0.5)
C8_Witness ==
  \E i \in Calls :
    IsFrom(i, "Hsl") /\ Gray(Arg(i)) /\ Arg(i).r = Half /\ Ret(i).l = Half

\* position i closes a round trip v -> v.to_color() -> S::from_color
RoundTrip(i, space) == i >= 3 /\ IsFrom(i, space) /\ IsTo(i - 1, space)
Sent(i) == trace[i - 2].val

\* h in [0,360)
HueInDomain(h) == IsFinite(h) /\ FGe(h, Zero) /\ FLt(h, FromInt(360))
HslInDomain(v) == HueInDomain(v.h) /\ InUnit(v.s) /\ InUnit(v.l) /\ InUnit(v.a)
HsvInDomain(v) == HueInDomain(v.h) /\ InUnit(v.s) /\ InUnit(v.v) /\ InUnit(v.a)
HslClose(x, y) ==
  Close(x.h, y.h, Tol4) /\ Close(x.s, y.s, Tol4) /\ Close(x.l, y.l, Tol4)
    /\ Close(x.a, y.a, Tol4)
HsvClose(x, y) ==
  Close(x.h, y.h, Tol4) /\ Close(x.s, y.s, Tol4) /\ Close(x.v, y.v, Tol4)
    /\ Close(x.a, y.a, Tol4)

\* max - min of the colour of an Hsl value: s * (1 - |2l - 1|)
HslChroma(v) == FMul(v.s, FSub(One, FAbs(FSub(FMul(Two, v.l), One))))
\* max - min of the colour of an Hsv value: s * v
HsvChroma(v) == FMul(v.s, v.v)
\* the least chroma for which the hue is recovered within 1e-4
ChromaMin == FDiv(One, FromInt(20))

Primary(i, h) ==
  IsTo(i, "Hsl") /\ Arg(i).h = FromInt(h) /\ Arg(i).s = One /\ Arg(i).l = Half

\* C13: with s = 1 and l = 0.5, Hsl::to_color of the hues 0, 120 and 240
\* returns exactly (1,0,0), (0,1,0) and (0,0,1): a hue fraction that falls
\* exactly on the boundary 2/3 is in the upper segment.
C13_HslPrimaries ==
  \A i \in Calls :
    /\ Primary(i, 0) => Ret(i) = Color(One, Zero, Zero, Arg(i).a)
    /\ Primary(i, 120) => Ret(i) = Color(Zero, One, Zero, Arg(i).a)
    /\ Primary(i, 240) => Ret(i) = Color(Zero, Zero, One, Arg(i).a)

\* Hsl{h: 120, s: 1, l: 0.5}, whose red channel has the hue fraction
\* 1/3 + 1/3 = TWO_THIRDS, has been converted to pure green
C13_Witness ==
  \E i \in Calls :
    /\ Primary(i, 120)
    /\ FAdd(FDiv(Arg(i).h, FromInt(360)), ONE_THIRD) = TWO_THIRDS
    /\ Ret(i).r = Zero /\ Ret(i).g = One

\* C14: for every finite pivot colour (here with channels of magnitude at
\* most 2), the hue reported by Hsv::from_color, and by Hwb::from_color which
\* takes it from there, lies in [0,360): never negative, never 360 or more.
C14_HsvHueRange ==
  \A i \in Calls :
    (IsFrom(i, "Hsv") \/ IsFrom(i, "Hwb")) /\ Moderate(Arg(i))
      => HueInDomain(Ret(i).h)

\* the same for the colours whose channels are multiples of 1/4
HsvHueRangeQuarters ==
  \A i \in Calls :
    ((IsFrom(i, "Hsv") \/ IsFrom(i, "Hwb")) /\ Moderate(Arg(i))
       /\ Arg(i).r \in PivotCh /\ Arg(i).g \in PivotCh /\ Arg(i).b \in PivotCh)
      => HueInDomain(Ret(i).h)

\* w and b in [0,1], w + b < 1, h in [0,360)
HwbInDomain(v) ==
  /\ HueInDomain(v.h) /\ InUnit(v.w) /\ InUnit(v.b) /\ IsFinite(v.a)
  /\ FLt(FAdd(v.w, v.b), One)
\* Hsv{h, s: 1 - w/(1-b), v: 1-b, a}
HsvOfHwb(v) == Hsv(v.h, FSub(One, FDiv(v.w, FSub(One, v.b))), FSub(One, v.b), v.a)
\* the greatest and the least of the finite channels r, g, b
MaxCh(c) == CHOOSE x \in {c.r, c.g, c.b} : \A y \in {c.r, c.g, c.b} : FGe(x, y)
MinCh(c) == CHOOSE x \in {c.r, c.g, c.b} : \A y \in {c.r, c.g, c.b} : FLe(x, y)
\* max - min of the colour of a non-degenerate Hwb value: 1 - b - w
HwbChroma(v) == FSub(FSub(One, v.b), v.w)

WbSum(v) == FAdd(v.w, v.b)
\* what C17 says of every space
UnitDecodes(i) ==
  /\ IsFrom(i, "Hsl") /\ UnitRgb(Arg(i)) => InUnit(Ret(i).s) /\ InUnit(Ret(i).l)
  /\ IsFrom(i, "Hsv") /\ UnitRgb(Arg(i)) => InUnit(Ret(i).s) /\ InUnit(Ret(i).v)
  /\ IsFrom(i, "Hwb") /\ UnitRgb(Arg(i)) =>
       InUnit(Ret(i).w) /\ InUnit(Ret(i).b) /\ FLe(WbSum(Ret(i)), One)

\* C17: for every pivot colour with r, g, b in [0,1], Hsl::from_color returns
\* s and l in [0,1], Hsv::from_color returns s and v in [0,1], and
\* Hwb::from_color returns w and b in [0,1] with w + b <= 1; w + b = 1 when the
\* colour is achromatic, and w + b < 1 when max - min is at least 1e-6.
C17_InGamutDecodes ==
  \A i \in Calls :
    /\ UnitDecodes(i)
    /\ (IsFrom(i, "Hwb") /\ UnitRgb(Arg(i))) =>
         /\ Gray(Arg(i)) => WbSum(Ret(i)) = One
         /\ FGe(FSub(MaxCh(Arg(i)), MinCh(Arg(i))), Tol6) => FLt(WbSum(Ret(i)), One)

\* C17 as stated: w + b = 1 exactly when the colour is achromatic
C17_Exact ==
  \A i \in Calls :
    /\ UnitDecodes(i)
    /\ (IsFrom(i, "Hwb") /\ UnitRgb(Arg(i))) => (WbSum(Ret(i)) = One <=> Gray(Arg(i)))

\* Hwb::from_color has decoded the in-gamut colour (0.25, 0.5, 1) into
\* w = 0.25, b = 0
C17_Witness ==
  \E i \in Calls :
    /\ IsFrom(i, "Hwb") /\ UnitRgb(Arg(i))
    /\ Arg(i).r = Dec(25, 2) /\ Arg(i).g = Half /\ Arg(i).b = One
    /\ Ret(i).w = Dec(25, 2) /\ Ret(i).b = Zero

-----------------------------------------------------------------------------
(* Claims on the RGB spaces (SpecRgb)                                       *)

HasNaN(c) == IsNaN(c.r) \/ IsNaN(c.g) \/ IsNaN(c.b) \/ IsNaN(c.a)

\* C1: no fractional power of a negative base: every conversion of the RGB
\* spaces, applied to a value with finite channels (here of magnitude at most
\* 2, out-of-domain ones included), returns no NaN channel.
C1_NoNaN == \A i \in Calls : Moderate(Arg(i)) => ~HasNaN(Ret(i))

ClampedRgb(v) ==
  [v EXCEPT !.r = ClampUnit(v.r), !.g = ClampUnit(v.g), !.b = ClampUnit(v.b)]

\* C10: Rec2020::from_color of a finite pivot colour returns r, g, b in [0,1];
\* Rec2020::to_color of a value equals to_color of that value with r, g, b
\* clamped to [0,1]; alpha passes through unclamped in both directions.
C10_PreGammaClamp ==
  \A i \in Calls :
    /\ IsFrom(i, "Rec2020") /\ FiniteColor(Arg(i))
         => UnitRgb(Ret(i)) /\ Ret(i).a = Arg(i).a
    /\ IsTo(i, "Rec2020")
         => Ret(i) = Rec2020_to_color(ClampedRgb(Arg(i))) /\ Ret(i).a = Arg(i).a

\* a Rec2020 value with a channel above 1 and one below 0 was converted to the
\* pivot, and the out-of-gamut pivot colour was converted back
C10_Witness ==
  /\ Len(trace) = 3
  /\ IsTo(2, "Rec2020") /\ FGt(Arg(2).r, One) /\ FLt(Arg(2).g, Zero)
  /\ Arg(2).a = Two /\ Ret(2).a = Two
  /\ IsFrom(3, "Rec2020") /\ FiniteColor(Arg(3)) /\ ~UnitRgb(Arg(3))

\* the XYZ triple inside AdobeRgb::to_color, DisplayP3::to_color and
\* Rec2020::to_color
AdobeXyz(v) ==
  MatMul(ADOBE_TO_XYZ, AdobePow(v.r, FDiv(FromInt(563), FromInt(256))),
         AdobePow(v.g, FDiv(FromInt(563), FromInt(256))),
         AdobePow(v.b, FDiv(FromInt(563), FromInt(256))))
P3Xyz(v) == P3ToXyz(decode(v.r), decode(v.g), decode(v.b))
Rec2020Xyz(v) == MatMul(REC2020_TO_XYZ, inv_gamma(v.r), inv_gamma(v.g), inv_gamma(v.b))

\* C12: every to_color that goes through XYZ maps its XYZ triple to the pivot
\* with the coefficients of Xyz::to_color: for the same XYZ triple AdobeRgb,
\* DisplayP3 and Rec2020 return the r, g, b that Xyz::to_color returns.
C12_SameBridge ==
  \A i \in Calls :
    /\ IsTo(i, "AdobeRgb") =>
         Ret(i) = Xyz_to_color(XyzOf(AdobeXyz(Arg(i)), Arg(i).a))
    /\ IsTo(i, "DisplayP3") =>
         Ret(i) = Xyz_to_color(XyzOf(P3Xyz(Arg(i)), Arg(i).a))
    /\ IsTo(i, "Rec2020") =>
         Ret(i) = Xyz_to_color(XyzOf(Rec2020Xyz(Arg(i)), Arg(i).a))

\* the same for the two codecs that use the four-digit coefficients
SameBridgeAdobeP3 ==
  \A i \in Calls :
    /\ IsTo(i, "AdobeRgb") =>
         Ret(i) = Xyz_to_color(XyzOf(AdobeXyz(Arg(i)), Arg(i).a))
    /\ IsTo(i, "DisplayP3") =>
         Ret(i) = Xyz_to_color(XyzOf(P3Xyz(Arg(i)), Arg(i).a))

-----------------------------------------------------------------------------
(* Claims on the CIE spaces (SpecCie)                                       *)

XyzInDomain(v) == InUnit(v.x) /\ InUnit(v.y) /\ InUnit(v.z) /\ IsFinite(v.alpha)
XyzClose(x, y) ==
  Close(x.x, y.x, Tol6) /\ Close(x.y, y.y, Tol6) /\ Close(x.z, y.z, Tol6)
    /\ Close(x.alpha, y.alpha, Tol6)

\* C3: for every Xyz value v with x, y, z in [0,1],
\* Xyz::from_color(&v.to_color()) equals v within 1e-6 on every channel.
C3_XyzRoundTrip ==
  \A i \in Calls :
    RoundTrip(i, "Xyz") /\ XyzInDomain(Sent(i)) => XyzClose(Ret(i), Sent(i))

\* v is an Lch value without chroma: |c| < 1e-10, l in [0,100], any finite hue
LchGray(v) ==
  /\ Within(v.c, EPSILON) /\ ~FEq(FAbs(v.c), EPSILON)
  /\ IsFinite(v.l) /\ FGe(v.l, Zero) /\ FLe(v.l, FromInt(100))
  /\ IsFinite(v.h) /\ IsFinite(v.a)

\* C5: for every Lch value v with |c| < 1e-10, l in [0,100] and any hue,
\* Lch::from_color(&v.to_color()) reports h = 0.
C5_ChromaZeroHue ==
  \A i \in Calls : RoundTrip(i, "Lch") /\ LchGray(Sent(i)) => Ret(i).h = Zero

\* C6: for every finite pivot colour (here with channels of magnitude at most
\* 2), the hue reported by Lch::from_color lies in [0,360): 360 itself and
\* negative values are never returned.
C6_HueRange ==
  \A i \in Calls : IsFrom(i, "Lch") /\ Moderate(Arg(i)) => HueInDomain(Ret(i).h)

-----------------------------------------------------------------------------
(* Claims on the Oklab spaces (SpecOk)                                      *)

FiniteOk(v) == IsFinite(v.l) /\ IsFinite(v.alpha)
InHalf(x) == IsFinite(x) /\ FGe(x, FNeg(Half)) /\ FLe(x, Half)
UnitColor(c) == UnitRgb(c) /\ InUnit(c.a)

\* C9: Oklab::from_color of a finite pivot colour returns l and alpha in
\* [0,1] and a, b in [-0.5,0.5]; Oklab::to_color and Oklch::to_color of a
\* value with finite channels return r, g, b and a in [0,1];
\* Oklch::from_color of a finite pivot colour returns l and alpha in [0,1].
C9_OklabClamp ==
  \A i \in Calls :
    /\ IsFrom(i, "Oklab") /\ FiniteColor(Arg(i)) =>
         InUnit(Ret(i).l) /\ InHalf(Ret(i).a) /\ InHalf(Ret(i).b) /\ InUnit(Ret(i).alpha)
    /\ (IsTo(i, "Oklab") /\ FiniteOk(Arg(i)) /\ IsFinite(Arg(i).a) /\ IsFinite(Arg(i).b))
         => UnitColor(Ret(i))
    /\ (IsTo(i, "Oklch") /\ FiniteOk(Arg(i)) /\ IsFinite(Arg(i).c) /\ IsFinite(Arg(i).h))
         => UnitColor(Ret(i))
    /\ IsFrom(i, "Oklch") /\ FiniteColor(Arg(i)) =>
         InUnit(Ret(i).l) /\ InUnit(Ret(i).alpha)

-----------------------------------------------------------------------------
(* Claims on every space (SpecAlpha)                                        *)

\* the alpha field of the value at position i of the chain
AlphaAt(i) ==
  IF trace[i].space \in {"Xyz", "Lab", "Luv", "Oklab", "Oklch"}
    THEN trace[i].val.alpha
    ELSE trace[i].val.a
\* the conversion at position i is one of Oklab or Oklch
IsOk(i) == {trace[i].space, trace[i - 1].space} \cap {"Oklab", "Oklch"} # {}

\* C11: to_color and from_color of every codec other than Oklab and Oklch
\* return the alpha they were given, unchanged and unclamped, on every branch;
\* Oklab and Oklch return it clamped to [0,1].
C11_AlphaPassthrough ==
  \A i \in Calls :
    IF IsOk(i) THEN AlphaAt(i) = ClampUnit(AlphaAt(i - 1))
    ELSE AlphaAt(i) = AlphaAt(i - 1)

\* the gray branch of Hwb::to_color has returned the alpha 2 it was given, and
\* Oklab::from_color has then clamped it to 1
C11_Witness ==
  /\ Len(trace) = 3
  /\ IsTo(2, "Hwb") /\ HwbDegenerate(Arg(2)) /\ Arg(2).a = Two /\ Ret(2).a = Two
  /\ IsFrom(3, "Oklab") /\ Ret(3).alpha = One

-----------------------------------------------------------------------------
(* Claims on Lab's f and f_inv (SpecLabF)                                   *)

IsF(i) == trace[i].op = "f"
IsFInv(i) == trace[i].op = "f_inv"
\* |x - y| <= tol * max(1, |y|)
CloseRel(x, y, tol) ==
  IsFinite(x) /\ IsFinite(y) /\ FLe(FAbs(FSub(x, y)), FMul(tol, FMax(One, FAbs(y))))
\* f(t) > 6/29 exactly when t > (6/29)^3
SameBranch(t, u) == FGt(u, FDiv(FromInt(6), FromInt(29))) <=> FGt(t, LabEps3)
\* f and f_inv without their inner guards
PlainF(t) ==
  IF FGt(t, LabEps3) THEN Powf(t, FDiv(One, FromInt(3)))
  ELSE FAdd(FMul(FMul(FDiv(One, FromInt(3)), Powi2(FDiv(FromInt(29), FromInt(6)))), t),
            FDiv(FromInt(4), FromInt(29)))
PlainFInv(u) ==
  IF FGt(u, FDiv(FromInt(6), FromInt(29))) THEN Powi3(u)
  ELSE FMul(FMul(FromInt(3), Powi2(FDiv(FromInt(6), FromInt(29)))),
            FSub(u, FDiv(FromInt(4), FromInt(29))))

\* t is within 1e-6 of the threshold (6/29)^3
AtThreshold(t) == Close(t, LabEps3, Tol6)

\* C16: for every finite t of magnitude at most 100 (negative, zero or
\* positive), f_inv(f(t)) equals t up to the rounding of the arithmetic
\* (within 1e-6 * max(1, |t|)); f(t) > 6/29 exactly when t > (6/29)^3, so
\* f_inv takes the branch matching the one f took, unless t is within 1e-6 of
\* the threshold, where the two branches agree up to rounding; the inner
\* abs() < 1e-10 guards of f and f_inv are never taken, for any argument.
C16_FInvMirrorsF ==
  \A i \in Calls :
    /\ IsF(i) => Ret(i) = PlainF(Arg(i))
    /\ IsFInv(i) => Ret(i) = PlainFInv(Arg(i))
    /\ (IsF(i) /\ Within(Arg(i), FromInt(100)) /\ ~AtThreshold(Arg(i)))
         => SameBranch(Arg(i), Ret(i))
    /\ (IsFInv(i) /\ i >= 3 /\ IsF(i - 1) /\ Within(Sent(i), FromInt(100)))
         => CloseRel(Ret(i), Sent(i), Tol6)

\* C16 as stated: f_inv(f(t)) = t for every t
C16_Exact ==
  \A i \in Calls :
    (IsFInv(i) /\ i >= 3 /\ IsF(i - 1) /\ IsFinite(Sent(i))) => Ret(i) = Sent(i)

\* t = 1/2 went through the power branch of f and of f_inv, and the least t
\* above (6/29)^3 did too
C16_Witness ==
  \E i \in Calls :
    /\ IsFInv(i) /\ i >= 3 /\ IsF(i - 1)
    /\ Sent(i) \in {Half, Fin(1, LabEps3.m + 1, LabEps3.e)}
    /\ FGt(Arg(i), FDiv(FromInt(6), FromInt(29)))
    /\ CloseRel(Ret(i), Sent(i), Tol6)

=============================================================================
